---- MODULE Spec2Model ----
(***************************************************************************)
(* A model of the PackWisely patcher: the installer (install.rs), the      *)
(* directory walker and copier (file_util.rs) and the patch builder        *)
(* (lib.rs).  The disk is a set of directories and a map from file paths   *)
(* to byte strings; a path is a sequence of components.  An install run    *)
(* advances one filesystem or network operation at a time, so that a kill  *)
(* or an error can fall between any two of them.                           *)
(***************************************************************************)
EXTENDS Integers, Sequences, FiniteSets, TLC

\* ------------------------------------------------------------------ bounds

\* How many times install is invoked on one disk.
MaxRuns == 2

\* How many times create_patch is invoked on one out_dir.
MaxPatchRuns == 2

\* ------------------------------------------------------------- basic data

V1 == "1.0.0"
V2 == "1.1.0"
NoVersion == "none"

HostOS == "linux"
HostArch == "x86_64"

Native == [os |-> "linux", arch |-> "x86_64", exe_path |-> "PackWisely.sh"]
Windows == [os |-> "windows", arch |-> "x86_64", exe_path |-> "PackWisely.exe"]
Arm == [os |-> "linux", arch |-> "aarch64", exe_path |-> "PackWisely.sh"]
\* A second entry for the host's own os and arch.
NativeAlt == [os |-> "linux", arch |-> "x86_64", exe_path |-> "PackWisely-alt.sh"]

\* Tree-relative paths a manifest names, in a fixed listing order.
PA == <<"a.bin">>
PB == <<"PackWisely", "Saved", "b.pak">>
PathSeq == <<PA, PB>>
Paths == {PA, PB}
\* A path no manifest of the model names.
ExtraPath == <<"extra", "x.bin">>

SavedDir == <<"PackWisely", "Saved">>
SaveDirs == <<SavedDir \o <<"Config">>, SavedDir \o <<"SaveGames">> >>

\* File contents are byte strings.
OldData == <<1>>
NewData == <<1, 2>>
CorruptData == <<1, 3>>
ShortData == <<1>>
LongData == <<1, 2, 2>>
SaveData == <<7>>

\* BLAKE3 as a collision-free digest: distinct inputs give distinct hashes.
Blake3(data) == <<"blake3", data>>

Zeros(n) == [i \in 1..n |-> 0]

FileManifest(p, data) == [path |-> p, len |-> Len(data), hash |-> Blake3(data)]

\* ------------------------------------------------------------ sequences

Range(s) == {s[i] : i \in 1..Len(s)}

RECURSIVE SeqFilter(_, _)
SeqFilter(s, keep) ==
    IF s = <<>> THEN <<>>
    ELSE (IF Head(s) \in keep THEN <<Head(s)>> ELSE <<>>) \o SeqFilter(Tail(s), keep)

Last(s) == s[Len(s)]
Front(s) == SubSeq(s, 1, Len(s) - 1)

\* ---------------------------------------------------------------- paths

Parent(p) == SubSeq(p, 1, Len(p) - 1)
\* The file a path names once the OS has followed its ".." components.
RECURSIVE Resolve(_)
Resolve(p) ==
    IF p = <<>> THEN <<>>
    ELSE IF Last(p) = ".." THEN Parent(Resolve(Front(p)))
    ELSE Append(Resolve(Front(p)), Last(p))
\* PathBuf::join keeps the ".." components of a relative path.
Join(dir, rel) == Resolve(dir \o rel)
IsUnder(p, dir) == Len(p) >= Len(dir) /\ SubSeq(p, 1, Len(dir)) = dir
\* Every directory create_dir_all makes sure of: the path and its ancestors.
Ancestors(p) == {SubSeq(p, 1, i) : i \in 0..Len(p)}

WriteFile(f, p, data) == [q \in DOMAIN f \cup {p} |-> IF q = p THEN data ELSE f[q]]
RemoveFile(f, p) == [q \in DOMAIN f \ {p} |-> f[q]]
EmptyFiles == [q \in {} |-> <<>>]

\* The entries read_dir lists for a directory.
Children(ds, f, dir) ==
    {q \in ds \cup DOMAIN f : Len(q) = Len(dir) + 1 /\ Parent(q) = dir}

\* ------------------------------------------------------------ manifests

\* lib.rs PatchManifest; previous_version is NoVersion for None.
PatchManifest(version, previous_version, new_files, diff_files, stale_files) ==
    [version |-> version, previous_version |-> previous_version,
     new_files |-> new_files, diff_files |-> diff_files, stale_files |-> stale_files]

VersionManifest(version, platforms) == [version |-> version, platforms |-> platforms]

\* The content of <channel_dir>/manifest.json: no file, a file of length zero,
\* or the JSON of a manifest (serde_json::to_vec and from_str are inverse on
\* every PatchManifest, so the JSON text is identified with the manifest).
NoFile == [kind |-> "absent"]
EmptyFile == [kind |-> "empty"]
\* Two more states the file can be found in: content that is no PatchManifest
\* JSON, and a file that cannot be opened or read (permissions, a directory).
GarbageFile == [kind |-> "garbage"]
UnreadableFile == [kind |-> "unreadable"]
JsonFile(mf) == [kind |-> "json", mf |-> mf]

\* The HashMap built from a manifest list: path -> (len, hash); a later entry
\* of the same path replaces an earlier one.
RECURSIVE ManifestMap(_)
ManifestMap(list) ==
    IF list = <<>> THEN [q \in {} |-> <<>>]
    ELSE LET rest == ManifestMap(Front(list))
             e == Last(list)
         IN [q \in DOMAIN rest \cup {e.path} |->
                IF q = e.path THEN [len |-> e.len, hash |-> e.hash] ELSE rest[q]]

\* ---------------------------------------------------------------- deltas

\* A delta is a magic number and a list of commands: copy the base, or emit
\* literal bytes.
CopyCmd == [op |-> "copy", data |-> <<>>]
LitCmd(data) == [op |-> "lit", data |-> data]
Delta(cmds) == [magic |-> TRUE, cmds |-> cmds]

\* fast_rsync::apply_limited: runs the commands in order, refusing the first
\* one whose output would pass the limit; what was written before stays.
RECURSIVE ApplyCmds(_, _, _, _)
ApplyCmds(base, cmds, out, limit) ==
    IF cmds = <<>> THEN [ok |-> TRUE, out |-> out]
    ELSE LET piece == IF Head(cmds).op = "copy" THEN base ELSE Head(cmds).data
         IN IF Len(piece) > limit THEN [ok |-> FALSE, out |-> out]
            ELSE ApplyCmds(base, Tail(cmds), out \o piece, limit - Len(piece))

ApplyLimited(base, delta, limit) ==
    IF ~delta.magic THEN [ok |-> FALSE, out |-> <<>>]
    ELSE ApplyCmds(base, delta.cmds, <<>>, limit)

\* Writing `out` at offset 0 of a file already holding `data`.
Overwrite(data, out) ==
    [i \in 1..(IF Len(out) > Len(data) THEN Len(out) ELSE Len(data)) |->
        IF i <= Len(out) THEN out[i] ELSE data[i]]

\* ------------------------------------------------------ the served content

\* What the server publishes for a version is an input of install.  The model
\* draws it from: a role for every path (new in this version, changed against
\* the previous one, removed, or not named), an honest manifest and honest
\* archives for these roles, and at most one fault.
Roles == [Paths -> {"none", "new", "diff", "stale"}]
Faults == {"none", "truncated", "corrupt", "short", "long", "extra", "dup", "badversion"}

RolePaths(roles, r) == SeqFilter(PathSeq, {p \in Paths : roles[p] = r})

ManifestList(ps, data) == [i \in 1..Len(ps) |-> FileManifest(ps[i], data)]

OtherVersion(v) == IF v = V1 THEN V2 ELSE V1

ServedManifest(version, previous_version, roles, fault) ==
    PatchManifest(IF fault = "badversion" THEN OtherVersion(version) ELSE version,
                  previous_version,
                  ManifestList(RolePaths(roles, "new"), NewData),
                  ManifestList(RolePaths(roles, "diff"), NewData),
                  RolePaths(roles, "stale"))

RawEntry(p, data) == [path |-> p, data |-> data]
DiffEntry(p, delta) == [path |-> p, delta |-> delta]

\* A delta that turns OldData into NewData.
HonestDelta == Delta(<<CopyCmd, LitCmd(<<2>>)>>)

FaultyData(fault) ==
    CASE fault = "corrupt" -> CorruptData
      [] fault = "short" -> ShortData
      [] fault = "long" -> LongData
      [] OTHER -> NewData

FaultyDelta(fault) ==
    CASE fault = "corrupt" -> Delta(<<CopyCmd, LitCmd(<<3>>)>>)
      [] fault = "short" -> Delta(<<CopyCmd>>)
      [] fault = "long" -> Delta(<<CopyCmd, LitCmd(<<2>>), LitCmd(<<2>>)>>)
      [] OTHER -> HonestDelta

\* The fault applied to an archive's entry list; `extra` is the entry an
\* "extra" fault appends, `bad` the first entry as the fault changes it.
Faulty(entries, fault, bad, extra) ==
    CASE fault = "extra" -> Append(entries, extra)
      [] entries = <<>> -> entries
      [] fault = "truncated" -> Front(entries)
      [] fault = "dup" -> Append(entries, Head(entries))
      [] fault \in {"corrupt", "short", "long"} -> <<bad>> \o Tail(entries)
      [] OTHER -> entries

ServedRaw(roles, fault) ==
    LET ps == RolePaths(roles, "new")
        honest == [i \in 1..Len(ps) |-> RawEntry(ps[i], NewData)]
    IN Faulty(honest, fault,
              IF ps = <<>> THEN RawEntry(ExtraPath, NewData)
              ELSE RawEntry(ps[1], FaultyData(fault)),
              RawEntry(ExtraPath, NewData))

ServedDiff(roles, fault) ==
    LET ps == RolePaths(roles, "diff")
        honest == [i \in 1..Len(ps) |-> DiffEntry(ps[i], HonestDelta)]
    IN Faulty(honest, fault,
              IF ps = <<>> THEN DiffEntry(ExtraPath, HonestDelta)
              ELSE DiffEntry(ps[1], FaultyDelta(fault)),
              DiffEntry(ExtraPath, HonestDelta))

\* The catalog and the platform directory of the newest version.
CatOne == <<VersionManifest(V1, <<Native>>)>>
CatTwo == <<VersionManifest(V1, <<Native>>), VersionManifest(V2, <<Native>>)>>
CatWine == <<VersionManifest(V1, <<Native>>), VersionManifest(V2, <<Windows>>)>>
CatArm == <<VersionManifest(V1, <<Native>>), VersionManifest(V2, <<Arm>>)>>
\* versions.json is read as the server lists it: here the newer version first.
CatUnsorted == <<VersionManifest(V2, <<Native>>), VersionManifest(V1, <<Native>>)>>

\* Every platforms list of up to two entries, as the one version's list.
PlatformPool == {Native, NativeAlt, Windows, Arm}
PlatformLists == {<<>>} \cup {<<a>> : a \in PlatformPool} \cup (PlatformPool \X PlatformPool)

Server(channels, catalog, wine, roles, fault) ==
    LET version == IF catalog = <<>> THEN V1 ELSE Last(catalog).version
        previous == IF version = V1 THEN NoVersion ELSE V1
    IN [published |-> TRUE, channels |-> channels, versions |-> catalog, wine |-> wine,
        manifest |-> ServedManifest(version, previous, roles, fault),
        raw |-> ServedRaw(roles, fault), diff |-> ServedDiff(roles, fault)]

NoRoles == [p \in Paths |-> "none"]
AllNew == [p \in Paths |-> "new"]

\* Servers whose install run does the archive work, and the others (the run
\* ends in the catalog steps, or the archives are those of one honest patch).
DeepServers(catalog) ==
    {Server(<<"stable">>, catalog, FALSE, roles, fault) : roles \in Roles, fault \in Faults}
ShallowServers ==
    {Server(<<>>, CatOne, FALSE, AllNew, "none"),
     Server(<<"stable">>, <<>>, FALSE, AllNew, "none"),
     Server(<<"stable">>, CatWine, FALSE, AllNew, "none"),
     Server(<<"stable">>, CatWine, TRUE, AllNew, "none"),
     Server(<<"stable">>, CatArm, FALSE, AllNew, "none"),
     Server(<<"stable">>, CatArm, TRUE, AllNew, "none"),
     Server(<<"stable">>, CatUnsorted, FALSE, AllNew, "none")}
\* One listed version with any platforms list, wine found or not.
PlatformServers ==
    {Server(<<"stable">>, <<VersionManifest(V1, list)>>, wine, AllNew, "none") :
        list \in PlatformLists, wine \in BOOLEAN}

\* A path that leaves the directory it is joined to, and a server whose
\* manifest and raw.tar.zst both carry an entry of that path.
EscapePath == <<"..", "..", "escaped.bin">>
EscapeServer ==
    LET honest == Server(<<"stable">>, CatOne, FALSE, AllNew, "none")
    IN [honest EXCEPT
            !.manifest.new_files = Append(@, FileManifest(EscapePath, NewData)),
            !.raw = Append(@, RawEntry(EscapePath, NewData))]

\* -------------------------------------------------------- the initial disk

\* format!("{}/{}-{}", version, os, arch) under the channel directory, which
\* is the root <<>> of the modelled disk.
DirName(platform_mf) ==
    CASE platform_mf.os = "linux" /\ platform_mf.arch = "x86_64" -> "linux-x86_64"
      [] platform_mf.os = "windows" /\ platform_mf.arch = "x86_64" -> "windows-x86_64"
      [] platform_mf.os = "linux" /\ platform_mf.arch = "aarch64" -> "linux-aarch64"

join_install_dir(version, platform_mf) == <<version, DirName(platform_mf)>>

\* The disk a successful install of version 1 (every path new, OldData)
\* leaves, and what the game has written under PackWisely/Saved since:
\* nothing; the two save directories; one save file in SaveGames as well; two
\* save files there; a save file in a subdirectory of SaveGames.
SaveStates == {"unplayed", "empty", "one", "two", "nested"}
InstalledV1 == PatchManifest(V1, NoVersion, ManifestList(PathSeq, OldData), <<>>, <<>>)
OldDir == join_install_dir(V1, Native)
SlotFile == Join(OldDir, SaveDirs[2] \o <<"slot0.sav">>)

SlotFileTwo == Join(OldDir, SaveDirs[2] \o <<"slot1.sav">>)
NestedFile == Join(OldDir, SaveDirs[2] \o <<"backup", "slot0.sav">>)

SaveFiles(saves) ==
    CASE saves = "one" -> {SlotFile}
      [] saves = "two" -> {SlotFile, SlotFileTwo}
      [] saves = "nested" -> {NestedFile}
      [] OTHER -> {}

InstalledDirs(saves) ==
    UNION {Ancestors(Join(OldDir, Parent(p))) : p \in Paths}
    \cup (IF saves = "unplayed" THEN {}
          ELSE UNION {Ancestors(Join(OldDir, SaveDirs[i])) : i \in 1..Len(SaveDirs)})
    \cup UNION {Ancestors(Parent(q)) : q \in SaveFiles(saves)}

InstalledFiles(saves) ==
    [q \in {Join(OldDir, p) : p \in Paths} \cup SaveFiles(saves) |->
        IF q \in SaveFiles(saves) THEN SaveData ELSE OldData]

\* ------------------------------------------------- create_patch's inputs

\* A directory tree: its directories (the root is <<>>) and its regular files.
Tree(ds, f) == [dirs |-> ds, files |-> f]

\* The new_dir trees of the model: empty; one file beside an empty directory;
\* a file of length zero; files at two depths; a file in a subdirectory only.
Trees ==
    {Tree({<<>>}, EmptyFiles),
     Tree({<<>>, <<"empty">>}, PA :> NewData),
     Tree({<<>>}, PA :> <<>>),
     Tree(Ancestors(Parent(PB)), PA :> NewData @@ PB :> OldData),
     Tree(Ancestors(Parent(PB)), PB :> NewData)}

\* A signature stands for the data it was computed from: fast_rsync::diff
\* needs no more of it than which blocks of the old data the new data repeats.
Signature(data) == <<"sig", data>>
SigEntry(p, data) == [path |-> p, sig |-> Signature(data)]

\* fast_rsync::diff: a delta that rebuilds `data` from the signed old data.
FastRsyncDiff(sig, data) ==
    LET old == sig[2]
    IN IF old # <<>> /\ Len(old) <= Len(data) /\ SubSeq(data, 1, Len(old)) = old
       THEN Delta(<<CopyCmd, LitCmd(SubSeq(data, Len(old) + 1, Len(data)))>>)
       ELSE Delta(<<LitCmd(data)>>)

\* The old_dir argument: not given, or a directory whose sig.tar holds these
\* entries (any tar is an input: entries of absent paths, repeated entries).
NoOldDir == [some |-> FALSE, sig |-> <<>>]
OldDirWith(sig) == [some |-> TRUE, sig |-> sig]
OldDirs ==
    {NoOldDir,
     OldDirWith(<<SigEntry(PA, OldData)>>),
     OldDirWith(<<SigEntry(PA, OldData), SigEntry(PA, OldData)>>),
     OldDirWith(<<SigEntry(ExtraPath, OldData), SigEntry(PB, OldData)>>)}

\* The version argument; the last one is no semantic version.
VersionArgs == {V1, V2, "latest"}
IsSemver(version) == version \in {V1, V2}

\* The manifest an earlier create_patch of version 1 left in out_dir.
PriorManifest == PatchManifest(V1, NoVersion, ManifestList(<<PA>>, OldData), <<>>, <<>>)

EmptyOut == [manifest |-> NoFile, raw |-> <<>>, sig |-> <<>>, diff |-> <<>>]

NoManifest == PatchManifest(NoVersion, NoVersion, <<>>, <<>>, <<>>)

\* Nothing is published yet: install has no server to ask.
Unpublished ==
    [published |-> FALSE, channels |-> <<>>, versions |-> <<>>, wine |-> FALSE,
     manifest |-> NoManifest, raw |-> <<>>, diff |-> <<>>]

InitPatch ==
    [pc |-> "idle", runs |-> 0, new_dir |-> Tree({<<>>}, EmptyFiles), old_dir |-> NoOldDir,
     version |-> NoVersion, start |-> NoFile, prev_version |-> NoVersion,
     new_files |-> {}, diff_files |-> <<>>, stale_files |-> <<>>, new_mf_files |-> <<>>,
     result |-> "none", emitted |-> NoManifest,
     \* for the properties: whether old_dir holds the sig.tar the previous run
     \* emitted, and the tree that run was given
     chained |-> FALSE, prev_dir |-> Tree({<<>>}, EmptyFiles)]

\* ------------------------------------------------------------------ state

VARIABLES
    dirs,          \* the directories under the channel directory
    files,         \* the regular files under it: path -> bytes
    chanManifest,  \* <channel_dir>/manifest.json
    server,        \* what the server answers: channels, versions, manifest, archives
    pc,            \* where the install run stands ("idle": no run)
    result,        \* how the last run ended ("none": no run has ended)
    l,             \* the locals of do_install and install_patch
    h,             \* history of the current run, read by the properties only
    cp,            \* the create_patch run: its position, inputs and locals
    out,           \* the files of create_patch's out_dir
    vs,            \* one visit_stream call: the tree it walks, its locals, its items
    net            \* one archive phase's byte counter, its stream and its drains

vars == <<dirs, files, chanManifest, server, pc, result, l, h, cp, out, vs, net>>

\* What no step of an install run changes.
env == <<server, cp, out, vs, net>>

\* No visit_stream call and no archive phase is under study in an install run.
Idle == [status |-> "idle"]

None == [some |-> FALSE, dir |-> <<>>]
Some(dir) == [some |-> TRUE, dir |-> dir]

InitLocals ==
    [old_patch_mf |-> NoFile,
     version_mf |-> VersionManifest(NoVersion, <<>>),
     platform_mf |-> Native,
     old_install_dir |-> None,
     new_install_dir |-> <<>>,
     new_patch_mf |-> PatchManifest(NoVersion, NoVersion, <<>>, <<>>, <<>>),
     phase |-> 0,
     entries |-> <<>>,
     entry |-> RawEntry(<<>>, <<>>),
     pos |-> 0,
     files_to_remove |-> <<>>,
     save_idx |-> 0,
     to_visit |-> <<>>,
     dir_iter |-> {},
     child |-> <<>>,
     rm_idx |-> 0]

NoMap == [q \in {} |-> <<>>]

\* How a run ended, as the next run's history keeps it.
Outcome(res) ==
    CASE res = "none" -> "none"
      [] res = "Ok" -> "Ok"
      [] res = "Interrupted" -> "interrupted"
      [] OTHER -> "failed"

InitHistory ==
    [runs |-> 0, start |-> NoFile, prev |-> "none", prev_committing |-> FALSE,
     completed |-> {}, fetched |-> {}, written |-> NoMap, passed |-> NoMap,
     produced |-> [k \in {"diff", "new"} \X Paths |-> 0],
     mutated |-> FALSE, last_check |-> "none", committing |-> FALSE, target |-> <<>>,
     gets |-> {}, selected |-> NoVersion, platform |-> Native, unknown |-> {},
     disk0 |-> [dirs |-> {}, files |-> EmptyFiles]]

Init ==
    /\ \/ /\ dirs = {<<>>}
          /\ files = EmptyFiles
          /\ chanManifest = NoFile
          /\ server \in DeepServers(CatOne) \cup ShallowServers \cup PlatformServers
                          \cup {EscapeServer}
          /\ out = EmptyOut
       \/ \E saves \in SaveStates :
             /\ dirs = InstalledDirs(saves)
             /\ files = InstalledFiles(saves)
             /\ chanManifest = JsonFile(InstalledV1)
             /\ server \in DeepServers(CatTwo) \cup ShallowServers
             /\ out = EmptyOut
       \/ /\ dirs = {<<>>}
          /\ files = EmptyFiles
          /\ chanManifest \in {GarbageFile, UnreadableFile}
          /\ server \in {Server(<<"stable">>, CatOne, FALSE, AllNew, "none"),
                          Server(<<>>, CatOne, FALSE, AllNew, "none")}
          /\ out = EmptyOut
       \/ /\ dirs = {<<>>}
          /\ files = EmptyFiles
          /\ chanManifest = NoFile
          /\ server = Unpublished
          /\ out \in {EmptyOut, [EmptyOut EXCEPT !.manifest = JsonFile(PriorManifest)]}
    /\ pc = "idle"
    /\ result = "none"
    /\ l = InitLocals
    /\ h = InitHistory
    /\ cp = InitPatch
    /\ vs = Idle
    /\ net = Idle

\* ------------------------------------------------------- the install run

\* A variant order: the removal loops moved up, ahead of the new phase.
PhasesRemoveEarly == <<"diff", "remove", "new", "save", "commit">>

\* The phases of an install after the patch manifest is fetched, in the order
\* of the statements of install_patch and do_install.
Phases == <<"diff", "new", "save", "remove", "commit">>

PhaseEntry(phase) ==
    CASE phase = "diff" -> "diff_begin"
      [] phase = "new" -> "new_begin"
      [] phase = "save" -> "save_begin"
      [] phase = "remove" -> "remove_stale"
      [] phase = "commit" -> "commit_create"

\* do_install returns (an error through `?`, or Ok): the run ends and its
\* locals are dropped.
Finish(err) ==
    /\ pc' = "idle"
    /\ result' = err
    /\ l' = InitLocals

\* The current phase is over: on to the next one, or to the final Ok(()).
EndPhase(loc, hist) ==
    LET next == loc.phase + 1
        done == hist.completed \cup (IF loc.phase = 0 THEN {} ELSE {Phases[loc.phase]})
    IN /\ l' = [loc EXCEPT !.phase = next]
       /\ pc' = IF next > Len(Phases) THEN "return_ok" ELSE PhaseEntry(Phases[next])
       /\ h' = [hist EXCEPT !.completed = done]

\* A variant that puts the Wine entries ahead of the host's own.
get_platforms_wine_first(version_mf, wine) ==
    LET IsHostOS(mf) == mf.os = HostOS
        IsWindows(mf) == mf.os = "windows"
        IsHostArch(mf) == mf.arch = HostArch
        os_ok_list == (IF wine THEN SelectSeq(version_mf.platforms, IsWindows) ELSE <<>>)
                      \o SelectSeq(version_mf.platforms, IsHostOS)
        arch_ok_list == SelectSeq(os_ok_list, IsHostArch)
    IN IF os_ok_list = <<>> THEN [err |-> "UnsupportedOS", list |-> <<>>]
       ELSE IF arch_ok_list = <<>> THEN [err |-> "UnsupportedArch", list |-> <<>>]
       ELSE [err |-> "none", list |-> arch_ok_list]

\* A variant that filters by architecture before it filters by OS.
get_platforms_arch_first(version_mf, wine) ==
    LET IsOsOk(mf) == mf.os = HostOS \/ (wine /\ mf.os = "windows")
        IsHostArch(mf) == mf.arch = HostArch
        arch_ok_list == SelectSeq(version_mf.platforms, IsHostArch)
        os_ok_list == SelectSeq(arch_ok_list, IsOsOk)
    IN IF arch_ok_list = <<>> THEN [err |-> "UnsupportedArch", list |-> <<>>]
       ELSE IF os_ok_list = <<>> THEN [err |-> "UnsupportedOS", list |-> <<>>]
       ELSE [err |-> "none", list |-> os_ok_list]

\* install.rs get_platforms; `wine` is whether get_wine_path found wine.
get_platforms(version_mf, wine) ==
    LET IsHostOS(mf) == mf.os = HostOS
        IsWindows(mf) == mf.os = "windows"
        IsHostArch(mf) == mf.arch = HostArch
        os_ok_list == SelectSeq(version_mf.platforms, IsHostOS)
                      \o (IF wine THEN SelectSeq(version_mf.platforms, IsWindows) ELSE <<>>)
        arch_ok_list == SelectSeq(os_ok_list, IsHostArch)
    IN IF os_ok_list = <<>> THEN [err |-> "UnsupportedOS", list |-> <<>>]
       ELSE IF arch_ok_list = <<>> THEN [err |-> "UnsupportedArch", list |-> <<>>]
       ELSE [err |-> "none", list |-> arch_ok_list]

\* A variant that compares sizes only.
VerifySizeOnly(expected, actual_size, actual_hash) ==
    IF expected.len # actual_size THEN "WrongSize" ELSE "ok"

\* The size and hash checks after an entry is written.
VerifyEntry(expected, actual_size, actual_hash) ==
    IF expected.len # actual_size THEN "WrongSize"
    ELSE IF expected.hash # actual_hash THEN "WrongHash"
    ELSE "ok"

\* lib.rs install -> do_install: a run starts.
Install ==
    /\ pc = "idle"
    /\ server.published
    /\ h.runs < MaxRuns
    /\ pc' = "get_channels"
    /\ result' = "none"
    /\ l' = InitLocals
    /\ h' = [InitHistory EXCEPT !.runs = h.runs + 1, !.start = chanManifest,
                                !.prev = Outcome(result),
                                !.prev_committing = h.committing,
                                !.disk0 = [dirs |-> dirs, files |-> files]]
    /\ UNCHANGED <<dirs, files, chanManifest, env>>

\* The run is killed or cancelled, or a transient IO or network error ends it,
\* at this point.
Interrupt ==
    /\ pc # "idle"
    /\ Finish("Interrupted")
    /\ UNCHANGED <<dirs, files, chanManifest, env, h>>

GetChannels ==
    /\ pc = "get_channels"
    /\ IF server.channels = <<>> THEN Finish("UnknownChannel")
       ELSE pc' = "verify_channel_dir" /\ UNCHANGED <<result, l>>
    /\ h' = [h EXCEPT !.gets = @ \cup {"channels.json"}]
    /\ UNCHANGED <<dirs, files, chanManifest, env>>

\* A variant that takes every failure to open or read for "no prior install".
VerifyChannelDirLenient ==
    /\ pc = "verify_channel_dir"
    /\ IF chanManifest.kind \in {"empty", "garbage"} THEN Finish("InvalidInstalledPatch")
       ELSE /\ l' = [l EXCEPT !.old_patch_mf =
                        IF chanManifest.kind = "unreadable" THEN NoFile ELSE chanManifest]
            /\ pc' = "get_versions"
            /\ UNCHANGED result
    /\ UNCHANGED <<dirs, files, chanManifest, env, h>>

VerifyChannelDir ==
    /\ pc = "verify_channel_dir"
    /\ IF chanManifest.kind = "unreadable" THEN Finish("Io")
       ELSE IF chanManifest.kind \in {"empty", "garbage"} THEN Finish("InvalidInstalledPatch")
       ELSE /\ l' = [l EXCEPT !.old_patch_mf = chanManifest]
            /\ pc' = "get_versions"
            /\ UNCHANGED result
    /\ UNCHANGED <<dirs, files, chanManifest, env, h>>

\* A variant without the early return for an installed version that is current.
GetVersionsNoReturn ==
    /\ pc = "get_versions"
    /\ IF server.versions = <<>> THEN Finish("UnknownVersion")
       ELSE /\ l' = [l EXCEPT !.version_mf = Last(server.versions)]
            /\ pc' = "get_platforms"
            /\ UNCHANGED result
    /\ h' = [h EXCEPT !.gets = @ \cup {"versions.json"},
                      !.selected = IF server.versions = <<>> THEN @
                                   ELSE Last(server.versions).version]
    /\ UNCHANGED <<dirs, files, chanManifest, env>>

GetVersions ==
    /\ pc = "get_versions"
    /\ IF server.versions = <<>> THEN Finish("UnknownVersion")
       ELSE LET version_mf == Last(server.versions)
            IN IF l.old_patch_mf.kind = "json"
                  /\ l.old_patch_mf.mf.version = version_mf.version
               THEN Finish("Ok")
               ELSE /\ l' = [l EXCEPT !.version_mf = version_mf]
                    /\ pc' = "get_platforms"
                    /\ UNCHANGED result
    /\ h' = [h EXCEPT !.gets = @ \cup {"versions.json"},
                      !.selected = IF server.versions = <<>> THEN @
                                   ELSE Last(server.versions).version]
    /\ UNCHANGED <<dirs, files, chanManifest, env>>

GetPlatforms ==
    /\ pc = "get_platforms"
    /\ LET platforms == get_platforms(l.version_mf, server.wine)
           platform_mf == platforms.list[1]
       IN IF platforms.err # "none" THEN Finish(platforms.err) /\ UNCHANGED h
          ELSE /\ l' = [l EXCEPT
                        !.platform_mf = platform_mf,
                        !.old_install_dir =
                            IF l.old_patch_mf.kind = "json"
                            THEN Some(join_install_dir(l.old_patch_mf.mf.version, platform_mf))
                            ELSE None,
                        !.new_install_dir =
                            join_install_dir(l.version_mf.version, platform_mf)]
               /\ pc' = "create_install_dir"
               /\ h' = [h EXCEPT !.target = join_install_dir(l.version_mf.version, platform_mf),
                                 !.platform = platform_mf]
               /\ UNCHANGED result
    /\ UNCHANGED <<dirs, files, chanManifest, env>>

CreateInstallDir ==
    /\ pc = "create_install_dir"
    /\ dirs' = dirs \cup Ancestors(l.new_install_dir)
    /\ pc' = "get_patch"
    /\ h' = [h EXCEPT !.mutated = TRUE]
    /\ UNCHANGED <<files, chanManifest, env, result, l>>

\* A variant that saves the fetched manifest at once, ahead of install_patch.
GetPatchSaving ==
    /\ pc = "get_patch"
    /\ chanManifest' = JsonFile(server.manifest)
    /\ EndPhase([l EXCEPT !.new_patch_mf = server.manifest],
                [h EXCEPT !.gets = @ \cup {"manifest.json"}])
    /\ UNCHANGED <<dirs, files, env, result>>

GetPatch ==
    /\ pc = "get_patch"
    /\ EndPhase([l EXCEPT !.new_patch_mf = server.manifest],
                [h EXCEPT !.gets = @ \cup {"manifest.json"}])
    /\ UNCHANGED <<dirs, files, chanManifest, env, result>>

\* ---- install_patch: the diff phase (install.rs 312-417)

Count(hist, phase, p) ==
    IF p \in Paths THEN [hist EXCEPT !.produced[<<phase, p>>] = @ + 1] ELSE hist

\* A variant that requests diff.tar.zst before it looks for the old install.
DiffBeginFetchFirst ==
    /\ pc = "diff_begin"
    /\ IF l.new_patch_mf.diff_files = <<>>
       THEN EndPhase(l, h) /\ UNCHANGED result
       ELSE /\ h' = [h EXCEPT !.fetched = @ \cup {"diff.tar.zst"}]
            /\ IF ~l.old_install_dir.some
               THEN Finish("MissingPreviousVersion")
               ELSE /\ l' = [l EXCEPT !.entries = server.diff]
                    /\ pc' = "diff_next"
                    /\ UNCHANGED result
    /\ UNCHANGED <<dirs, files, chanManifest, env>>

DiffBegin ==
    /\ pc = "diff_begin"
    /\ IF l.new_patch_mf.diff_files = <<>>
       THEN EndPhase(l, h) /\ UNCHANGED result
       ELSE IF ~l.old_install_dir.some
       THEN Finish("MissingPreviousVersion") /\ UNCHANGED h
       ELSE /\ l' = [l EXCEPT !.entries = server.diff]
            /\ pc' = "diff_next"
            /\ h' = [h EXCEPT !.fetched = @ \cup {"diff.tar.zst"}]
            /\ UNCHANGED result
    /\ UNCHANGED <<dirs, files, chanManifest, env>>

DiffNext ==
    /\ pc = "diff_next"
    /\ LET diff_set == ManifestMap(l.new_patch_mf.diff_files)
           entry == Head(l.entries)
           dst_path == Join(l.new_install_dir, entry.path)
       IN IF l.entries = <<>>
          THEN EndPhase(l, h) /\ UNCHANGED <<result, dirs>>
          ELSE IF entry.path \notin DOMAIN diff_set
          THEN /\ Finish("UnexpectedArchiveFile")
               /\ h' = [h EXCEPT !.unknown = @ \cup {<<"diff", entry.path>>}]
               /\ UNCHANGED dirs
          ELSE /\ dirs' = dirs \cup Ancestors(Parent(dst_path))
               /\ l' = [l EXCEPT !.entry = entry, !.entries = Tail(l.entries)]
               /\ pc' = "diff_open_dst"
               /\ h' = [Count(h, "diff", entry.path) EXCEPT !.mutated = TRUE]
               /\ UNCHANGED result
    /\ UNCHANGED <<files, chanManifest, env>>

DiffOpenDst ==
    /\ pc = "diff_open_dst"
    /\ LET expected == ManifestMap(l.new_patch_mf.diff_files)[l.entry.path]
           dst_path == Join(l.new_install_dir, l.entry.path)
       IN /\ files' = WriteFile(files, dst_path, Zeros(expected.len))
          /\ h' = [h EXCEPT !.written = WriteFile(@, l.entry.path, expected),
                            !.passed = RemoveFile(@, l.entry.path)]
    /\ pc' = "diff_apply"
    /\ UNCHANGED <<dirs, chanManifest, env, result, l>>

DiffApply ==
    /\ pc = "diff_apply"
    /\ LET expected == ManifestMap(l.new_patch_mf.diff_files)[l.entry.path]
           src_path == Join(l.old_install_dir.dir, l.entry.path)
           dst_path == Join(l.new_install_dir, l.entry.path)
           applied == ApplyLimited(files[src_path], l.entry.delta, expected.len)
       IN IF src_path \notin DOMAIN files
          THEN Finish("Io") /\ UNCHANGED files
          ELSE /\ files' = WriteFile(files, dst_path, Overwrite(files[dst_path], applied.out))
               /\ IF applied.ok
                  THEN /\ l' = [l EXCEPT !.pos = Len(applied.out)]
                       /\ pc' = "diff_verify"
                       /\ UNCHANGED result
                  ELSE Finish("DiffApplyError")
    /\ UNCHANGED <<dirs, chanManifest, env, h>>

DiffVerify ==
    /\ pc = "diff_verify"
    /\ LET expected == ManifestMap(l.new_patch_mf.diff_files)[l.entry.path]
           src_path == Join(l.old_install_dir.dir, l.entry.path)
           dst_path == Join(l.new_install_dir, l.entry.path)
           check == VerifyEntry(expected, l.pos, Blake3(files[dst_path]))
       IN /\ h' = [h EXCEPT !.last_check = check,
                            !.passed = IF check = "ok"
                                       THEN WriteFile(@, l.entry.path, expected) ELSE @]
          /\ IF check # "ok" THEN Finish(check)
             ELSE /\ l' = [l EXCEPT !.files_to_remove = Append(@, src_path)]
                  /\ pc' = "diff_next"
                  /\ UNCHANGED result
    /\ UNCHANGED <<dirs, files, chanManifest, env>>

\* ---- install_patch: the new phase (install.rs 419-502)

NewBegin ==
    /\ pc = "new_begin"
    /\ IF l.new_patch_mf.new_files = <<>>
       THEN EndPhase(l, h)
       ELSE /\ l' = [l EXCEPT !.entries = server.raw]
            /\ pc' = "new_next"
            /\ h' = [h EXCEPT !.fetched = @ \cup {"raw.tar.zst"}]
    /\ UNCHANGED <<dirs, files, chanManifest, env, result>>

\* A variant that creates the entry's directories before it looks the entry up.
NewNextMkdirFirst ==
    /\ pc = "new_next"
    /\ LET new_set == ManifestMap(l.new_patch_mf.new_files)
           entry == Head(l.entries)
           dst_path == Join(l.new_install_dir, entry.path)
       IN IF l.entries = <<>>
          THEN EndPhase(l, h) /\ UNCHANGED <<result, dirs>>
          ELSE /\ dirs' = dirs \cup Ancestors(Parent(dst_path))
               /\ IF entry.path \notin DOMAIN new_set
                  THEN /\ Finish("UnexpectedArchiveFile")
                       /\ h' = [h EXCEPT !.unknown = @ \cup {<<"new", entry.path>>}]
                  ELSE /\ l' = [l EXCEPT !.entry = entry, !.entries = Tail(l.entries)]
                       /\ pc' = "new_create"
                       /\ h' = [Count(h, "new", entry.path) EXCEPT !.mutated = TRUE]
                       /\ UNCHANGED result
    /\ UNCHANGED <<files, chanManifest, env>>

NewNext ==
    /\ pc = "new_next"
    /\ LET new_set == ManifestMap(l.new_patch_mf.new_files)
           entry == Head(l.entries)
           dst_path == Join(l.new_install_dir, entry.path)
       IN IF l.entries = <<>>
          THEN EndPhase(l, h) /\ UNCHANGED <<result, dirs>>
          ELSE IF entry.path \notin DOMAIN new_set
          THEN /\ Finish("UnexpectedArchiveFile")
               /\ h' = [h EXCEPT !.unknown = @ \cup {<<"new", entry.path>>}]
               /\ UNCHANGED dirs
          ELSE /\ dirs' = dirs \cup Ancestors(Parent(dst_path))
               /\ l' = [l EXCEPT !.entry = entry, !.entries = Tail(l.entries)]
               /\ pc' = "new_create"
               /\ h' = [Count(h, "new", entry.path) EXCEPT !.mutated = TRUE]
               /\ UNCHANGED result
    /\ UNCHANGED <<files, chanManifest, env>>

NewCreate ==
    /\ pc = "new_create"
    /\ LET expected == ManifestMap(l.new_patch_mf.new_files)[l.entry.path]
           dst_path == Join(l.new_install_dir, l.entry.path)
       IN /\ files' = WriteFile(files, dst_path, Zeros(expected.len))
          /\ h' = [h EXCEPT !.written = WriteFile(@, l.entry.path, expected),
                            !.passed = RemoveFile(@, l.entry.path)]
    /\ pc' = "new_write"
    /\ UNCHANGED <<dirs, chanManifest, env, result, l>>

NewWrite ==
    /\ pc = "new_write"
    /\ LET dst_path == Join(l.new_install_dir, l.entry.path)
       IN files' = WriteFile(files, dst_path, Overwrite(files[dst_path], l.entry.data))
    /\ l' = [l EXCEPT !.pos = Len(l.entry.data)]
    /\ pc' = "new_verify"
    /\ UNCHANGED <<dirs, chanManifest, env, result, h>>

NewVerify ==
    /\ pc = "new_verify"
    /\ LET expected == ManifestMap(l.new_patch_mf.new_files)[l.entry.path]
           check == VerifyEntry(expected, l.pos, Blake3(l.entry.data))
       IN /\ h' = [h EXCEPT !.last_check = check,
                            !.passed = IF check = "ok"
                                       THEN WriteFile(@, l.entry.path, expected) ELSE @]
          /\ IF check # "ok" THEN Finish(check)
             ELSE pc' = "new_next" /\ UNCHANGED <<result, l>>
    /\ UNCHANGED <<dirs, files, chanManifest, env>>

\* ---- install_patch: save preservation (install.rs 504-510), with
\* file_util.rs copy_dir over visit_stream

SaveBegin ==
    /\ pc = "save_begin"
    /\ IF ~l.old_install_dir.some
       THEN EndPhase(l, h)
       ELSE /\ l' = [l EXCEPT !.save_idx = 1,
                              !.to_visit = <<Join(l.old_install_dir.dir, SaveDirs[1])>>,
                              !.dir_iter = {}]
            /\ pc' = "copy_next"
            /\ UNCHANGED h
    /\ UNCHANGED <<dirs, files, chanManifest, env, result>>

\* One poll of the visit_stream by copy_dir's loop: the next child of the
\* directory being read (in the order the filesystem lists them, which is any
\* order), else the next directory of the stack, else the end of the stream.
CopyNext ==
    /\ pc = "copy_next"
    /\ \/ /\ l.dir_iter # {}
          /\ \E child \in l.dir_iter :
                l' = [l EXCEPT !.dir_iter = @ \ {child},
                               !.to_visit = IF child \in dirs THEN Append(@, child) ELSE @,
                               !.child = child]
          /\ pc' = "copy_mkdir"
          /\ UNCHANGED <<result, h>>
       \/ /\ l.dir_iter = {}
          /\ l.to_visit # <<>>
          /\ IF Last(l.to_visit) \notin dirs
             THEN Finish("CopyError") /\ UNCHANGED h
             ELSE /\ l' = [l EXCEPT !.to_visit = Front(@),
                                    !.dir_iter = Children(dirs, files, Last(l.to_visit))]
                  /\ UNCHANGED <<pc, result, h>>
       \/ /\ l.dir_iter = {}
          /\ l.to_visit = <<>>
          /\ IF l.save_idx < Len(SaveDirs)
             THEN /\ l' = [l EXCEPT !.save_idx = @ + 1,
                                    !.to_visit = <<Join(l.old_install_dir.dir,
                                                        SaveDirs[l.save_idx + 1])>>]
                  /\ UNCHANGED <<pc, h>>
             ELSE EndPhase(l, h)
          /\ UNCHANGED result
    /\ UNCHANGED <<dirs, files, chanManifest, env>>

\* The source and destination roots of the copy_dir call in progress.
CopySrcDir == Join(l.old_install_dir.dir, SaveDirs[l.save_idx])
CopyDstDir == Join(l.new_install_dir, SaveDirs[l.save_idx])
\* dst_dir.join(src_path.strip_prefix(src_dir))
CopyDstPath == Join(CopyDstDir, SubSeq(l.child, Len(CopySrcDir) + 1, Len(l.child)))

\* tokio::fs::create_dir(dst_parent): not recursive, and an error when the
\* directory exists.
CopyMkdir ==
    /\ pc = "copy_mkdir"
    /\ LET dst_parent == Parent(CopyDstPath)
       IN IF dst_parent \in dirs \/ Parent(dst_parent) \notin dirs
          THEN Finish("CopyError") /\ UNCHANGED <<dirs, h>>
          ELSE /\ dirs' = dirs \cup {dst_parent}
               /\ pc' = "copy_create_new"
               /\ h' = [h EXCEPT !.mutated = TRUE]
               /\ UNCHANGED <<result, l>>
    /\ UNCHANGED <<files, chanManifest, env>>

CopyCreateNew ==
    /\ pc = "copy_create_new"
    /\ IF CopyDstPath \in dirs \cup DOMAIN files
       THEN Finish("CopyError") /\ UNCHANGED files
       ELSE /\ files' = WriteFile(files, CopyDstPath, <<>>)
            /\ pc' = "copy_copy"
            /\ UNCHANGED <<result, l>>
    /\ UNCHANGED <<dirs, chanManifest, env, h>>

\* tokio::fs::copy: an error when the source is a directory.
CopyCopy ==
    /\ pc = "copy_copy"
    /\ IF l.child \notin DOMAIN files
       THEN Finish("CopyError") /\ UNCHANGED files
       ELSE /\ files' = WriteFile(files, CopyDstPath, files[l.child])
            /\ pc' = "copy_next"
            /\ UNCHANGED <<result, l>>
    /\ UNCHANGED <<dirs, chanManifest, env, h>>

\* ---- install_patch: removal (install.rs 512-524)

RemoveStale ==
    /\ pc = "remove_stale"
    /\ LET stale_files == IF l.old_install_dir.some THEN l.new_patch_mf.stale_files ELSE <<>>
           file == Join(l.old_install_dir.dir, stale_files[l.rm_idx + 1])
       IN IF l.rm_idx >= Len(stale_files)
          THEN /\ l' = [l EXCEPT !.rm_idx = 0]
               /\ pc' = "remove_old"
               /\ UNCHANGED <<result, files, h>>
          ELSE IF file \notin DOMAIN files
          THEN Finish("Io") /\ UNCHANGED <<files, h>>
          ELSE /\ files' = RemoveFile(files, file)
               /\ l' = [l EXCEPT !.rm_idx = @ + 1]
               /\ h' = [h EXCEPT !.mutated = TRUE]
               /\ UNCHANGED <<pc, result>>
    /\ UNCHANGED <<dirs, chanManifest, env>>

RemoveOld ==
    /\ pc = "remove_old"
    /\ LET file == l.files_to_remove[l.rm_idx + 1]
       IN IF l.rm_idx >= Len(l.files_to_remove)
          THEN EndPhase(l, h) /\ UNCHANGED <<result, files>>
          ELSE IF file \notin DOMAIN files
          THEN Finish("Io") /\ UNCHANGED <<files, h>>
          ELSE /\ files' = RemoveFile(files, file)
               /\ l' = [l EXCEPT !.rm_idx = @ + 1]
               /\ h' = [h EXCEPT !.mutated = TRUE]
               /\ UNCHANGED <<pc, result>>
    /\ UNCHANGED <<dirs, chanManifest, env>>

\* ---- do_install: the manifest commit (install.rs 187-192)

\* File::create truncates the file it opens.
CommitCreate ==
    /\ pc = "commit_create"
    /\ chanManifest' = EmptyFile
    /\ pc' = "commit_write"
    /\ h' = [h EXCEPT !.committing = TRUE, !.mutated = TRUE]
    /\ UNCHANGED <<dirs, files, env, result, l>>

CommitWrite ==
    /\ pc = "commit_write"
    /\ chanManifest' = JsonFile(l.new_patch_mf)
    /\ EndPhase(l, h)
    /\ UNCHANGED <<dirs, files, env, result>>

ReturnOk ==
    /\ pc = "return_ok"
    /\ Finish("Ok")
    /\ UNCHANGED <<dirs, files, chanManifest, env, h>>

\* ------------------------------------------------- create_patch (lib.rs)

\* file_util.rs visit_stream run to its end: everything it yields, which is
\* every entry below the root, the directories among them.
RECURSIVE visit_stream(_, _, _)
visit_stream(tree, to_visit, yielded) ==
    IF to_visit = {} THEN yielded
    ELSE LET path == CHOOSE d \in to_visit : TRUE
             children == Children(tree.dirs, tree.files, path)
         IN visit_stream(tree, (to_visit \ {path}) \cup (children \cap tree.dirs),
                         yielded \cup children)

\* A variant that lists the root only, without descending.
get_files_shallow(tree) == {p \in Children(tree.dirs, tree.files, <<>>) : p \in DOMAIN tree.files}

\* lib.rs get_files: the regular files the walk yields.
get_files(tree) == {p \in visit_stream(tree, {<<>>}, {}) : p \in DOMAIN tree.files}

\* The loop of do_create_diff over the entries of the old sig.tar: an entry
\* whose path is (still) in new_files moves it to diff_files, any other entry
\* is pushed on stale_files.
RECURSIVE Triage(_, _, _)
Triage(acc, old_entries, tree) ==
    IF old_entries = <<>> THEN acc
    ELSE LET e == Head(old_entries)
             data == tree.files[e.path]
         IN IF e.path \notin acc.new_files
            THEN Triage([acc EXCEPT !.stale_files = Append(@, e.path)],
                        Tail(old_entries), tree)
            ELSE Triage([acc EXCEPT
                            !.new_files = @ \ {e.path},
                            !.diff_files = Append(@, FileManifest(e.path, data)),
                            !.diff_tar = Append(@, DiffEntry(e.path, FastRsyncDiff(e.sig, data)))],
                        Tail(old_entries), tree)

\* A variant: out_dir/manifest.json as it was when create_patch was called.
old_patch_mf_at_call == cp.start

\* What do_create_diff reads from out_dir/manifest.json.
old_patch_mf == out.manifest

\* create_patch -> do_create_patch: a run starts with its arguments, and ends
\* at once when the version does not parse.
CreatePatch ==
    /\ cp.pc = "idle"
    /\ ~server.published
    /\ cp.runs < MaxPatchRuns
    /\ \E tree \in Trees, version \in VersionArgs,
          old_dir \in OldDirs \cup (IF cp.result = "Ok" THEN {OldDirWith(out.sig)} ELSE {}) :
          cp' = [InitPatch EXCEPT
                    !.runs = cp.runs + 1,
                    !.new_dir = tree, !.old_dir = old_dir, !.version = version,
                    !.start = out.manifest,
                    !.chained = cp.result = "Ok" /\ old_dir = OldDirWith(out.sig),
                    !.prev_dir = cp.new_dir,
                    !.pc = IF IsSemver(version) THEN "create_outputs" ELSE "idle",
                    !.result = IF IsSemver(version) THEN "none" ELSE "Semver"]
    /\ UNCHANGED <<dirs, files, chanManifest, server, pc, result, l, h, out, vs, net>>

\* The three File::create calls: each truncates the file it opens.
CpCreateOutputs ==
    /\ cp.pc = "create_outputs"
    /\ out' = [out EXCEPT !.raw = <<>>, !.sig = <<>>, !.manifest = EmptyFile]
    /\ cp' = [cp EXCEPT !.pc = IF cp.old_dir.some THEN "create_diff" ELSE "get_files"]
    /\ UNCHANGED <<dirs, files, chanManifest, server, pc, result, l, h, vs, net>>

\* do_create_diff, from the load of the prior manifest to its DiffResult.
DoCreateDiff ==
    /\ cp.pc = "create_diff"
    /\ IF old_patch_mf.kind # "json"
       THEN /\ cp' = [cp EXCEPT !.pc = "idle", !.result = "Json"]
            /\ UNCHANGED out
       ELSE LET start == [new_files |-> get_files(cp.new_dir), diff_files |-> <<>>,
                          stale_files |-> <<>>, diff_tar |-> <<>>]
                res == Triage(start, cp.old_dir.sig, cp.new_dir)
            IN /\ cp' = [cp EXCEPT !.pc = "append",
                                   !.prev_version = old_patch_mf.mf.version,
                                   !.new_files = res.new_files,
                                   !.diff_files = res.diff_files,
                                   !.stale_files = res.stale_files]
               /\ out' = [out EXCEPT !.diff = res.diff_tar]
    /\ UNCHANGED <<dirs, files, chanManifest, server, pc, result, l, h, vs, net>>

\* Without old_dir: every file of the new tree is new, prev_version is None.
CpGetFiles ==
    /\ cp.pc = "get_files"
    /\ cp' = [cp EXCEPT !.pc = "append", !.new_files = get_files(cp.new_dir)]
    /\ UNCHANGED <<dirs, files, chanManifest, server, pc, result, l, h, out, vs, net>>

\* One turn of the loop over new_files, a HashSet, so in any order: the
\* file goes into raw.tar, its signature into sig.tar, its size and hash into
\* the manifest.
CpAppendFile ==
    /\ cp.pc = "append"
    /\ \E file \in cp.new_files :
          LET data == cp.new_dir.files[file]
          IN /\ out' = [out EXCEPT !.raw = Append(@, RawEntry(file, data)),
                                   !.sig = Append(@, SigEntry(file, data))]
             /\ cp' = [cp EXCEPT !.new_files = @ \ {file},
                                 !.new_mf_files = Append(@, FileManifest(file, data))]
    /\ UNCHANGED <<dirs, files, chanManifest, server, pc, result, l, h, vs, net>>

\* After the loop: the manifest is built, written to out_dir and returned.
CpWriteManifest ==
    /\ cp.pc = "append"
    /\ cp.new_files = {}
    /\ LET manifest == PatchManifest(cp.version, cp.prev_version, cp.new_mf_files,
                                     cp.diff_files, cp.stale_files)
       IN /\ out' = [out EXCEPT !.manifest = JsonFile(manifest)]
          /\ cp' = [cp EXCEPT !.pc = "idle", !.result = "Ok", !.emitted = manifest]
    /\ UNCHANGED <<dirs, files, chanManifest, server, pc, result, l, h, vs, net>>

\* The publication step: out_dir as the last create_patch left it becomes the
\* one version of the channel "stable", for the host platform.
Publish ==
    /\ cp.pc = "idle"
    /\ cp.result = "Ok"
    /\ ~server.published
    /\ out.manifest.kind = "json"
    /\ server' = [published |-> TRUE, channels |-> <<"stable">>,
                  versions |-> <<VersionManifest(out.manifest.mf.version, <<Native>>)>>,
                  wine |-> FALSE, manifest |-> out.manifest.mf,
                  raw |-> out.raw, diff |-> out.diff]
    /\ UNCHANGED <<dirs, files, chanManifest, pc, result, l, h, cp, out, vs, net>>

\* Between two runs the operator withdraws version 1.1.0: the catalog, which
\* every run fetches anew, ends with 1.0.0 again and the server offers that
\* version's full patch.
CatalogRollback ==
    /\ pc = "idle"
    /\ result = "Ok"
    /\ h.runs < MaxRuns
    /\ server \in {Server(<<"stable">>, CatTwo, FALSE, roles, "none") : roles \in Roles}
    /\ chanManifest = JsonFile(server.manifest)
    /\ server' = Server(<<"stable">>, CatOne, FALSE, AllNew, "none")
    /\ UNCHANGED <<dirs, files, chanManifest, pc, result, l, h, cp, out, vs, net>>

Next ==
    \/ Install
    \/ Interrupt
    \/ GetChannels
    \/ VerifyChannelDir
    \/ GetVersions
    \/ GetPlatforms
    \/ CreateInstallDir
    \/ GetPatch
    \/ DiffBegin
    \/ DiffNext
    \/ DiffOpenDst
    \/ DiffApply
    \/ DiffVerify
    \/ NewBegin
    \/ NewNext
    \/ NewCreate
    \/ NewWrite
    \/ NewVerify
    \/ SaveBegin
    \/ CopyNext
    \/ CopyMkdir
    \/ CopyCreateNew
    \/ CopyCopy
    \/ RemoveStale
    \/ RemoveOld
    \/ CommitCreate
    \/ CommitWrite
    \/ ReturnOk
    \/ CreatePatch
    \/ CpCreateOutputs
    \/ DoCreateDiff
    \/ CpGetFiles
    \/ CpAppendFile
    \/ CpWriteManifest
    \/ Publish
    \/ CatalogRollback

Spec == Init /\ [][Next]_vars

\* ------------------------------------------------------------- properties

Ended == pc = "idle" /\ h.runs > 0
Patched == {"diff", "new", "save", "remove"} \subseteq h.completed

\* The regular files below `dir`, by their paths relative to it.
InstalledTree(dir) ==
    [p \in {SubSeq(q, Len(dir) + 1, Len(q)) : q \in {r \in DOMAIN files : IsUnder(r, dir)}} |->
        files[Join(dir, p)]]

Paths_of(list) == {list[i].path : i \in 1..Len(list)}
Occurrences(list, p) == Cardinality({i \in 1..Len(list) : list[i].path = p})

\* C1: in a run that has not reached the manifest commit (the step after the
\* removals), whether it is still running, was killed or has ended with an
\* error, the channel manifest.json is what it was when the run started.
ManifestUntouchedBeforeCommit ==
    (h.runs > 0 /\ ~Patched) => chanManifest = h.start

\* A run over an installed version 1 that wrote into the new tree and then
\* ended with WrongHash, the manifest still that of version 1.
FailedRunLeftManifest ==
    /\ Ended /\ result = "WrongHash" /\ h.mutated /\ ~Patched
    /\ h.start = JsonFile(InstalledV1) /\ chanManifest = h.start

\* C2: the phases run in the order diff, new, save copy, removal, commit: a
\* step that deletes a file is taken only when the diff phase, the new phase
\* and the save copy are complete and every written entry has passed its
\* check, and a step that changes manifest.json only when the removals are
\* complete as well.
PhaseOrder ==
    [][/\ (\E q \in DOMAIN files : q \notin DOMAIN files')
            => /\ {"diff", "new", "save"} \subseteq h.completed
               /\ DOMAIN h.written = DOMAIN h.passed
       /\ chanManifest' # chanManifest => Patched
       /\ "new" \in h'.completed => "diff" \in h'.completed
       /\ "save" \in h'.completed => "new" \in h'.completed
       /\ "remove" \in h'.completed => "save" \in h'.completed
       /\ "commit" \in h'.completed => "remove" \in h'.completed]_vars

\* An upgrade that ran all five phases: a file came from each archive, a save
\* file was copied, the old file is deleted and the manifest is the new one.
UpgradeRanAllPhases ==
    /\ Ended /\ result = "Ok" /\ h.completed = Range(Phases)
    /\ h.fetched = {"diff.tar.zst", "raw.tar.zst"}
    /\ Join(OldDir, PA) \notin DOMAIN files
    /\ Join(h.target, SaveDirs[2] \o <<"slot0.sav">>) \in DOMAIN files
    /\ chanManifest.kind = "json" /\ chanManifest.mf.version = V2

\* C3: when install returns success, every file it wrote from an archive has
\* the length and the BLAKE3 hash of its manifest entry; and a check that
\* found a wrong size or hash ended the run with that error, the channel
\* manifest.json not updated.
WrittenFilesVerified ==
    /\ (Ended /\ result = "Ok") =>
          \A p \in DOMAIN h.written :
             LET q == Join(h.target, p)
             IN /\ q \in DOMAIN files
                /\ Len(files[q]) = h.written[p].len
                /\ Blake3(files[q]) = h.written[p].hash
    /\ h.last_check \in {"WrongSize", "WrongHash"} =>
          /\ pc = "idle" /\ result = h.last_check
          /\ chanManifest = h.start

\* A successful upgrade that wrote both paths, one from each archive.
BothArchivesWritten ==
    /\ Ended /\ result = "Ok" /\ DOMAIN h.written = Paths
    /\ h.fetched = {"diff.tar.zst", "raw.tar.zst"}

\* C4: when install returns success after its commit, every path of
\* diff_files was produced by exactly one entry of diff.tar.zst and every
\* path of new_files by exactly one entry of raw.tar.zst.
ArchivesComplete ==
    (Ended /\ result = "Ok" /\ "commit" \in h.completed) =>
        /\ \A p \in Paths_of(chanManifest.mf.new_files) \cap Paths : h.produced[<<"new", p>>] = 1
        /\ \A p \in Paths_of(chanManifest.mf.diff_files) \cap Paths : h.produced[<<"diff", p>>] = 1

\* The upgrades of an honest server (every manifest entry in its archive, the
\* right bytes) over an installed version 1 whose two save directories exist
\* and are empty.
CleanUpgrade ==
    /\ server \in {Server(<<"stable">>, CatTwo, FALSE, roles, "none") : roles \in Roles}
    /\ \A i \in 1..Len(SaveDirs) : Join(OldDir, SaveDirs[i]) \in dirs
    /\ \A q \in DOMAIN files : ~IsUnder(q, Join(OldDir, SavedDir)) \/ q = Join(OldDir, PB)

\* The new tree holds every file the manifest names, with its bytes.
TargetTreeInstalled ==
    \A p \in Paths_of(server.manifest.new_files) \cup Paths_of(server.manifest.diff_files) :
        /\ Join(h.target, p) \in DOMAIN files
        /\ files[Join(h.target, p)] = NewData

\* On these upgrades a first run that nothing interrupts succeeds.
CleanUpgradeSucceeds ==
    (CleanUpgrade /\ Ended /\ h.runs = 1 /\ result # "Interrupted") =>
        result = "Ok" /\ TargetTreeInstalled

\* C5: after a run killed before the manifest commit, the next install against
\* the same server content succeeds and leaves the target version's tree.
RetrySucceeds ==
    (CleanUpgrade /\ Ended /\ h.runs = 2 /\ h.prev = "interrupted" /\ ~h.prev_committing
        /\ result # "Interrupted") =>
        result = "Ok" /\ TargetTreeInstalled

\* C6: after an install that returned success, a second install against the
\* same catalog reaches the short-circuit: it returns success having fetched
\* no archive and created, changed or deleted nothing.
SecondInstallNoWork ==
    (Ended /\ h.runs = 2 /\ h.prev = "Ok" /\ result # "Interrupted") =>
        result = "Ok" /\ h.fetched = {} /\ ~h.mutated

\* C7: in every reachable state the channel manifest.json is absent or holds
\* a complete manifest, never an empty or partial file.
ManifestNeverEmpty == chanManifest.kind # "empty"

\* C8: create_patch of a tree without old_dir, published, then installed on
\* an empty install directory: the installed regular files and their
\* contents are those of the tree.
FullInstallRoundTrip ==
    (Ended /\ h.runs = 1 /\ result = "Ok" /\ cp.result = "Ok" /\ ~cp.old_dir.some) =>
        InstalledTree(h.target) = cp.new_dir.files

\* The tree with files at two depths went through create_patch and install.
TwoDepthTreeInstalled ==
    /\ Ended /\ h.runs = 1 /\ result = "Ok" /\ cp.result = "Ok" /\ ~cp.old_dir.some
    /\ DOMAIN cp.new_dir.files = Paths
    /\ DOMAIN InstalledTree(h.target) = Paths

PreviousVersionRecorded ==
    /\ (cp.pc = "idle" /\ cp.runs > 0 /\ cp.old_dir.some /\ IsSemver(cp.version)
            /\ cp.start.kind = "json") =>
          /\ cp.result = "Ok"
          /\ cp.emitted.previous_version = cp.start.mf.version
    /\ (cp.pc = "idle" /\ cp.result = "Ok" /\ ~cp.old_dir.some) =>
          cp.emitted.previous_version = NoVersion

\* C11: a create_patch run on valid arguments, with or without old_dir, ends
\* in success with a sig.tar that holds a signature entry for every regular
\* file of the new tree.
SigTarCoversNewTree ==
    (cp.pc = "idle" /\ cp.runs > 0 /\ IsSemver(cp.version)
        /\ (cp.old_dir.some => cp.start.kind = "json")) =>
        /\ cp.result = "Ok"
        /\ Paths_of(out.sig) = DOMAIN cp.new_dir.files

\* C12: in a chain of create_patch runs, a run given the sig.tar the previous
\* run emitted emits a manifest whose stale_files are exactly the paths of
\* the previous tree that the new tree lacks.
StaleFilesExact ==
    (cp.pc = "idle" /\ cp.chained /\ IsSemver(cp.version)) =>
        /\ cp.result = "Ok"
        /\ Range(cp.emitted.stale_files) = DOMAIN cp.prev_dir.files \ DOMAIN cp.new_dir.files

\* SemVer precedence on the versions of the model.
Precedes(a, b) == a = V1 /\ b = V2

\* The listed versions that have a platform entry usable on the host.
UsableVersions ==
    {server.versions[i].version :
        i \in {j \in 1..Len(server.versions) :
                  get_platforms(server.versions[j], server.wine).err = "none"}}

\* C13: the version install selects is the newest by SemVer of the listed
\* versions that have a platform usable on the host, and resolution fails
\* only when no listed version has one.
NewestCompatibleSelected ==
    /\ (h.runs > 0 /\ h.selected # NoVersion /\ (h.target # <<>> \/ (Ended /\ result = "Ok"))) =>
          /\ h.selected \in UsableVersions
          /\ \A v \in UsableVersions : ~Precedes(h.selected, v)
    /\ (Ended /\ result \in {"UnknownVersion", "UnsupportedOS", "UnsupportedArch"}) =>
          UsableVersions = {}

\* The entries of the selected version's list for the host's own os and arch.
ExactMatches ==
    LET IsExact(mf) == mf.os = HostOS /\ mf.arch = HostArch
    IN SelectSeq(Last(server.versions).platforms, IsExact)

\* C14: a platform with os "windows" is selected only when wine was found and
\* the list has no entry for the host's own os and arch; when it has one, the
\* first such entry in list order is selected.
WineFallbackLast ==
    (h.runs > 0 /\ h.target # <<>>) =>
        /\ h.platform.os = "windows" => server.wine /\ ExactMatches = <<>>
        /\ ExactMatches # <<>> => h.platform = ExactMatches[1]

\* Wine was found and the list is <<Windows, NativeAlt>>: NativeAlt is selected.
NativeChosenOverWine ==
    /\ h.runs > 0 /\ h.target # <<>> /\ server.wine
    /\ Last(server.versions).platforms = <<Windows, NativeAlt>>
    /\ h.platform = NativeAlt

\* The servers of an honest upgrade to version 1.1.0.
HonestUpgrade ==
    server \in {Server(<<"stable">>, CatTwo, FALSE, roles, "none") : roles \in Roles}

\* The files that were under the old tree's save directories when the run
\* started, and whether each is now in the new tree, same path, same bytes.
OldSaveFiles ==
    {q \in DOMAIN h.disk0.files :
        \E i \in 1..Len(SaveDirs) : IsUnder(q, Join(OldDir, SaveDirs[i]))}
SavesCopied ==
    \A q \in OldSaveFiles :
        LET to == Join(h.target, SubSeq(q, Len(OldDir) + 1, Len(q)))
        IN to \in DOMAIN files /\ files[to] = h.disk0.files[q]

\* C15: an upgrade over a tree with files under PackWisely/Saved/SaveGames or
\* PackWisely/Saved/Config succeeds, and afterwards each of these files is in
\* the new tree at the same relative path with the same content.
SavesPreserved ==
    (Ended /\ h.runs = 1 /\ HonestUpgrade /\ h.start = JsonFile(InstalledV1)
        /\ OldSaveFiles # {} /\ result # "Interrupted") =>
        result = "Ok" /\ SavesCopied

\* C16: copy_dir on an existing source directory, with none of the
\* destination files present, succeeds and leaves every regular file of the
\* source at the matching path under the destination.
CopyDirCopiesTree ==
    (Ended /\ h.runs = 1 /\ h.start = JsonFile(InstalledV1)
        /\ \A i \in 1..Len(SaveDirs) : Join(OldDir, SaveDirs[i]) \in h.disk0.dirs) =>
        /\ result # "CopyError"
        /\ "save" \in h.completed => SavesCopied

\* The disk is as the run found it.
DiskUntouched ==
    /\ dirs = h.disk0.dirs
    /\ files = h.disk0.files
    /\ chanManifest = h.start

\* C17: when the installed channel manifest's version is the one selected from
\* the catalog, install returns Ok at once: nothing on disk is created,
\* modified or deleted, no archive is requested, and the only GETs are among
\* channels.json, versions.json and manifest.json.
AlreadyCurrentReturnsAtOnce ==
    (h.runs > 0 /\ h.start.kind = "json" /\ h.selected = h.start.mf.version) =>
        /\ pc = "idle"
        /\ result = "Ok"
        /\ DiskUntouched
        /\ ~h.mutated
        /\ h.fetched = {}
        /\ h.gets \subseteq {"channels.json", "versions.json", "manifest.json"}

\* A second run over the tree the first run installed returns by the early exit.
CurrentInstallShortCircuited ==
    /\ Ended
    /\ result = "Ok"
    /\ h.runs = 2
    /\ h.prev = "Ok"
    /\ h.start.kind = "json"
    /\ h.selected = h.start.mf.version
    /\ h.gets = {"channels.json", "versions.json"}

\* C18: with no prior channel manifest and a served manifest that lists
\* diff_files, install fails with MissingPreviousVersion before diff.tar.zst
\* is requested and before any file is written; manifest.json is not created.
MissingPreviousVersionFirst ==
    (h.runs > 0 /\ h.start.kind = "absent" /\ "manifest.json" \in h.gets
        /\ server.manifest.diff_files # <<>>
        /\ pc # "diff_begin" /\ result # "Interrupted") =>
        /\ pc = "idle"
        /\ result = "MissingPreviousVersion"
        /\ h.fetched = {}
        /\ h.written = NoMap
        /\ files = h.disk0.files
        /\ chanManifest = NoFile

\* A fresh install of a patch with diff_files has failed, its directory made.
FreshInstallOfDiffPatchFailed ==
    /\ Ended
    /\ result = "MissingPreviousVersion"
    /\ h.start = NoFile
    /\ h.target \in dirs
    /\ h.disk0.dirs = {<<>>}

\* The program counters at which an entry of each archive is being written.
DiffEntrySteps == {"diff_open_dst", "diff_apply", "diff_verify"}
NewEntrySteps == {"new_create", "new_write", "new_verify"}

\* Nothing of the path exists under the target directory.
NothingCreatedFor(path) ==
    \A k \in 1..Len(path) :
        Join(h.target, SubSeq(path, 1, k)) \notin dirs \cup DOMAIN files

\* C19: in the diff phase and in the new phase, an archive entry whose path is
\* no key of the phase's manifest map ends install with UnexpectedArchiveFile
\* before a file or directory is created for it; only listed entries are ever
\* worked on, verified entries stay on disk, manifest.json is not updated.
UnexpectedEntryRejected ==
    /\ h.unknown # {} =>
          /\ pc = "idle"
          /\ result = "UnexpectedArchiveFile"
          /\ chanManifest = h.start
          /\ \A u \in h.unknown : NothingCreatedFor(u[2])
          /\ \A p \in DOMAIN h.passed :
                /\ Join(h.target, p) \in DOMAIN files
                /\ Len(files[Join(h.target, p)]) = h.passed[p].len
                /\ Blake3(files[Join(h.target, p)]) = h.passed[p].hash
    /\ pc \in DiffEntrySteps => l.entry.path \in Paths_of(l.new_patch_mf.diff_files)
    /\ pc \in NewEntrySteps => l.entry.path \in Paths_of(l.new_patch_mf.new_files)

\* An unlisted entry was met in the new phase after a listed one was verified.
UnexpectedEntryAfterVerified ==
    /\ Ended
    /\ result = "UnexpectedArchiveFile"
    /\ <<"new", ExtraPath>> \in h.unknown
    /\ h.passed # NoMap

\* An unlisted entry was met in the diff phase.
UnexpectedEntryInDiff ==
    /\ Ended
    /\ result = "UnexpectedArchiveFile"
    /\ <<"diff", ExtraPath>> \in h.unknown

\* C20: reading the installed manifest has three outcomes. NotFound on open is
\* "no prior install" and the run goes on; any other IO error ends the run
\* with Io; content that is no PatchManifest JSON ends it with
\* InvalidInstalledPatch. In both error cases versions.json is never requested
\* and the disk is untouched.
ChannelManifestOutcomes ==
    /\ (h.runs > 0 /\ h.start.kind \in {"unreadable", "empty", "garbage"}) =>
          /\ "versions.json" \notin h.gets
          /\ DiskUntouched
          /\ ~h.mutated
          /\ (Ended /\ result \notin {"Interrupted", "UnknownChannel"}) =>
                result = IF h.start.kind = "unreadable" THEN "Io"
                         ELSE "InvalidInstalledPatch"
    /\ (h.runs > 0 /\ h.start.kind \in {"absent", "json"}) =>
          /\ result # "InvalidInstalledPatch"
          /\ pc \notin {"idle", "get_channels", "verify_channel_dir"} =>
                l.old_patch_mf = h.start
          /\ (Ended /\ result \notin {"Interrupted", "UnknownChannel"}) =>
                "versions.json" \in h.gets

\* A run over an unreadable manifest.json has ended with the IO error.
UnreadableManifestAborted ==
    /\ Ended
    /\ result = "Io"
    /\ h.start = UnreadableFile
    /\ h.gets = {"channels.json"}

\* The old install directory of the run: the installed manifest's version
\* joined with the platform the run chose (install.rs 167-168).
OldInstallDirOfRun == join_install_dir(h.start.mf.version, h.platform)

\* An upgrade has returned Ok past the early return.
UpgradeReturnedOk ==
    /\ Ended
    /\ result = "Ok"
    /\ h.start.kind = "json"
    /\ h.target # <<>>

\* C21: when an upgrade returns Ok, no path of stale_files and no path of
\* diff_files is left under the old install directory; and once the removal
\* of the old diff sources has begun, every stale file is already gone.
StaleAndDiffSourcesRemoved ==
    /\ UpgradeReturnedOk =>
          \A p \in Range(server.manifest.stale_files)
                    \cup Paths_of(server.manifest.diff_files) :
              Join(OldInstallDirOfRun, p) \notin DOMAIN files
    /\ (pc = "remove_old" /\ l.old_install_dir.some) =>
          \A i \in 1..Len(l.new_patch_mf.stale_files) :
              Join(l.old_install_dir.dir, l.new_patch_mf.stale_files[i]) \notin DOMAIN files

\* The order of the two removal loops alone: a file leaves the disk only in
\* the stale loop, or in the loop over files_to_remove once no stale file is left.
StaleRemovedFirst ==
    [][DOMAIN files' # DOMAIN files =>
          \/ DOMAIN files \subseteq DOMAIN files'
          \/ pc = "remove_stale"
          \/ /\ pc = "remove_old"
             /\ \A i \in 1..Len(l.new_patch_mf.stale_files) :
                   Join(l.old_install_dir.dir, l.new_patch_mf.stale_files[i])
                       \notin DOMAIN files]_vars

\* C22: an upgrade over a tree that lacks PackWisely/Saved/Config or
\* PackWisely/Saved/SaveGames skips the absent directory: the save phase
\* completes, stale removal follows and the served manifest is committed.
AbsentSavesSkipped ==
    (Ended /\ h.runs = 1 /\ HonestUpgrade /\ h.start = JsonFile(InstalledV1)
        /\ (\E i \in 1..Len(SaveDirs) : Join(OldDir, SaveDirs[i]) \notin h.disk0.dirs)
        /\ result # "Interrupted") =>
        /\ result = "Ok"
        /\ {"save", "remove"} \subseteq h.completed
        /\ chanManifest = JsonFile(server.manifest)

\* The entries of the chosen version that pass the OS filter, and those of
\* them that pass the architecture filter as well.
OsOkEntries ==
    {i \in 1..Len(Last(server.versions).platforms) :
        LET mf == Last(server.versions).platforms[i]
        IN mf.os = HostOS \/ (server.wine /\ mf.os = "windows")}
ArchOkEntries ==
    {i \in OsOkEntries : Last(server.versions).platforms[i].arch = HostArch}

\* The run has gone through platform resolution.
PlatformResolved ==
    /\ h.runs > 0
    /\ h.selected # NoVersion
    /\ ~(h.start.kind = "json" /\ h.start.mf.version = h.selected)
    /\ pc # "get_platforms"
    /\ ~(pc = "idle" /\ result = "Interrupted" /\ h.target = <<>>)

\* C23: platform resolution fails with UnsupportedOS exactly when no entry of
\* the chosen version has the host's os or (with wine found) os "windows";
\* with UnsupportedArch exactly when such entries exist and none has the
\* host's arch; otherwise it succeeds and the run goes on with a platform.
PlatformErrorsExact ==
    PlatformResolved =>
        /\ (pc = "idle" /\ result = "UnsupportedOS") <=> OsOkEntries = {}
        /\ (pc = "idle" /\ result = "UnsupportedArch") <=>
              (OsOkEntries # {} /\ ArchOkEntries = {})
        /\ h.target # <<>> <=> ArchOkEntries # {}
        /\ h.target # <<>> =>
              /\ h.platform.arch = HostArch
              /\ h.platform.os = HostOS \/ (server.wine /\ h.platform.os = "windows")

\* A version with entries for the host's OS, none of the host's architecture.
UnsupportedArchReported ==
    /\ Ended
    /\ result = "UnsupportedArch"
    /\ OsOkEntries # {}
    /\ server.wine

\* ------------------------------------------ visit_stream on its own trees

\* The paths a walked tree may have, to three levels under the root <<>>.
VisitUniverse ==
    {<<"a">>, <<"b">>, <<"a", "c">>, <<"a", "d">>, <<"a", "c", "e">>}

\* What std::fs::FileType tells apart, and no entry at all.
FileTypes == {"file", "dir", "symlink", "other"}

\* The trees: every entry's parent is a real directory. A symlink points at
\* the root, a directory that is its own ancestor's ancestor.
VisitTrees ==
    {t \in [VisitUniverse -> FileTypes \cup {"absent"}] :
        \A p \in VisitUniverse :
            (Len(p) > 1 /\ t[p] # "absent") => t[Parent(p)] = "dir"}

\* The directories of a tree, its root included.
TreeDirs(t) == {<<>>} \cup {p \in VisitUniverse : t[p] = "dir"}

\* The path with every symlink on it followed, as the OS resolves it.
RECURSIVE RealPath(_, _)
RealPath(t, path) ==
    IF path = <<>> THEN <<>>
    ELSE LET r == RealPath(t, Front(path)) \o <<Last(path)>>
         IN IF r \in VisitUniverse /\ t[r] = "symlink" THEN <<>> ELSE r

\* fs::read_dir(path) and next_entry: the entries of the directory the path
\* resolves to, named under the path that was given.
ReadDir(t, path) ==
    {path \o <<n>> : n \in {m \in {Last(p) : p \in VisitUniverse} :
        LET r == RealPath(t, path) \o <<m>>
        IN r \in VisitUniverse /\ t[r] # "absent"}}

\* DirEntry::file_type: the type of the entry itself, a symlink not followed.
file_type(t, child) == t[RealPath(t, Front(child)) \o <<Last(child)>>]

\* A variant that takes the type of what a symlink points at.
is_dir_followed(t, child) == file_type(t, child) \in {"dir", "symlink"}

\* FileType::is_dir on that type.
is_dir(t, child) == file_type(t, child) = "dir"

VisitErr == [ok |-> FALSE, file_type |-> "none", path |-> <<>>]
VisitItem(ft, path) == [ok |-> TRUE, file_type |-> ft, path |-> path]

\* No install run and no create_patch run: the function is studied alone.
QuietInit ==
    /\ dirs = {<<>>}
    /\ files = EmptyFiles
    /\ chanManifest = NoFile
    /\ server = Unpublished
    /\ out = EmptyOut
    /\ pc = "idle"
    /\ result = "none"
    /\ l = InitLocals
    /\ h = InitHistory
    /\ cp = InitPatch
Quiet == UNCHANGED <<dirs, files, chanManifest, server, pc, result, l, h, cp, out>>

\* The stream at its first poll: to_visit = vec![path], nothing yielded.
VisitInit ==
    /\ \E t \in VisitTrees : \E bad \in SUBSET TreeDirs(t) :
          vs = [status |-> "running", tree |-> t, unreadable |-> bad,
                to_visit |-> <<<<>>>>, dir |-> [some |-> FALSE, rest |-> {}],
                items |-> <<>>, read |-> <<>>]
    /\ net = Idle
    /\ QuietInit

VisitFrame == Quiet /\ UNCHANGED net

\* while let Some(path) = to_visit.pop(): read_dir(path).await?
VisitPop ==
    /\ vs.status = "running"
    /\ ~vs.dir.some
    /\ vs.to_visit # <<>>
    /\ LET path == Last(vs.to_visit)
       IN IF path \in vs.unreadable
          THEN vs' = [vs EXCEPT !.status = "error",
                                !.to_visit = Front(@),
                                !.read = Append(@, path),
                                !.items = Append(@, VisitErr)]
          ELSE vs' = [vs EXCEPT !.to_visit = Front(@),
                                !.read = Append(@, path),
                                !.dir = [some |-> TRUE, rest |-> ReadDir(vs.tree, path)]]
    /\ VisitFrame

\* while let Some(child) = dir.next_entry().await?: push a directory, yield.
VisitChild ==
    /\ vs.status = "running"
    /\ vs.dir.some
    /\ \E child \in vs.dir.rest :
          vs' = [vs EXCEPT
                    !.dir.rest = @ \ {child},
                    !.to_visit = IF is_dir(vs.tree, child) THEN Append(@, child) ELSE @,
                    !.items = Append(@, VisitItem(file_type(vs.tree, child), child))]
    /\ VisitFrame

\* next_entry returns None: the inner loop is over.
VisitDirEnd ==
    /\ vs.status = "running"
    /\ vs.dir.some
    /\ vs.dir.rest = {}
    /\ vs' = [vs EXCEPT !.dir = [some |-> FALSE, rest |-> {}]]
    /\ VisitFrame

\* to_visit.pop() returns None: the stream ends.
VisitEnd ==
    /\ vs.status = "running"
    /\ ~vs.dir.some
    /\ vs.to_visit = <<>>
    /\ vs' = [vs EXCEPT !.status = "done"]
    /\ VisitFrame

VisitNext ==
    \/ VisitPop
    \/ VisitChild
    \/ VisitDirEnd
    \/ VisitEnd

\* The consumer polls the stream until it ends.
VisitSpec == VisitInit /\ [][VisitNext]_vars /\ WF_vars(VisitNext)

\* The entries of the tree, and the successful items of the stream so far.
TreeEntries == {p \in VisitUniverse : vs.tree[p] # "absent"}
Yielded == {i \in 1..Len(vs.items) : vs.items[i].ok}
NoRepeat(s) == \A i, j \in 1..Len(s) : s[i] = s[j] => i = j

\* What holds of the stream at every point.
VisitSafe ==
    /\ NoRepeat(vs.items)
    /\ NoRepeat(vs.read)
    /\ \A i \in Yielded :
          /\ vs.items[i].path \in TreeEntries
          /\ vs.items[i].file_type = vs.tree[vs.items[i].path]
    /\ Range(vs.read) \subseteq TreeDirs(vs.tree)
    /\ \A i \in 1..Len(vs.items) : ~vs.items[i].ok => i = Len(vs.items)
    /\ vs.status = "running" => Yielded = 1..Len(vs.items)
    /\ vs.status = "done" =>
          /\ {vs.items[i].path : i \in Yielded} = TreeEntries
          /\ Yielded = 1..Len(vs.items)
          /\ Range(vs.read) = TreeDirs(vs.tree)
    /\ vs.status = "error" =>
          /\ vs.items # <<>>
          /\ ~Last(vs.items).ok
          /\ Last(vs.read) \in vs.unreadable
          /\ \A i \in 1..(Len(vs.read) - 1) : vs.read[i] \notin vs.unreadable
    /\ vs.unreadable # {} => vs.status # "done"

VisitOver == vs.status \in {"done", "error"}

\* C24: on every finite tree visit_stream ends; it yields every entry under
\* the root exactly once with its own type, reads every directory exactly
\* once, reads through no symlink, and an error item, at the first read_dir
\* that fails, is the last item.
VisitStreamTotal == []VisitSafe /\ <>VisitOver

\* A walk to the end of a tree with a symlink and a file three levels down.
VisitedDeepTreeWithSymlink ==
    /\ vs.status = "done"
    /\ vs.tree[<<"b">>] = "symlink"
    /\ vs.tree[<<"a", "c", "e">>] = "file"
    /\ Len(vs.items) >= 4

\* ------------------------------- the byte counter of the archive phases

\* The chunks a response body arrives in: up to MaxChunks chunks of 1 or 2 bytes.
MaxChunks == 3
ChunkSeqs == UNION {[1..n -> {1, 2}] : n \in 0..MaxChunks}

\* install_patch at the first archive phase: response_net_counter is 0 and
\* progress.net.value holds what the JSON requests added. `phase` 1 is
\* diff.tar.zst, 2 is raw.tar.zst; `chunks` is what the body has yet to
\* deliver, `delivered` what it has delivered in this phase, `value0` is
\* progress.net.value at the start of the phase, `drains` the drains in it.
NetInit ==
    /\ \E chunks \in ChunkSeqs, value \in {0, 3} :
          net = [status |-> "loop", phase |-> 1, chunks |-> chunks,
                 counter |-> 0, value |-> value, value0 |-> value,
                 delivered |-> 0, drains |-> 0]
    /\ vs = Idle
    /\ QuietInit

NetFrame == Quiet /\ UNCHANGED vs

\* The map closure over bytes_stream: fetch_add(bytes.len()), one atomic step.
NetFetchAdd ==
    /\ net.status = "loop"
    /\ net.chunks # <<>>
    /\ net' = [net EXCEPT !.counter = @ + Head(net.chunks),
                          !.delivered = @ + Head(net.chunks),
                          !.chunks = Tail(@)]
    /\ NetFrame

\* A variant of the drain that reads the counter and leaves it as it is.
NetDrainByLoad ==
    /\ net.status = "loop"
    /\ net.counter > 0
    /\ net' = [net EXCEPT !.value = @ + net.counter, !.drains = @ + 1]
    /\ NetFrame

\* The drain in the read loop, 50 ms after the last one:
\* progress.net.value += counter.swap(0), one atomic step. A swap of 0
\* changes nothing and is left out.
NetDrain ==
    /\ net.status = "loop"
    /\ net.counter > 0
    /\ net' = [net EXCEPT !.value = @ + net.counter, !.counter = 0,
                          !.drains = @ + 1]
    /\ NetFrame

\* entries.next() returns None and the drain after the loop runs; what the
\* body had not delivered is never polled.
NetFinalDrain ==
    /\ net.status = "loop"
    /\ net' = [net EXCEPT !.value = @ + net.counter, !.counter = 0,
                          !.chunks = <<>>, !.status = "end"]
    /\ NetFrame

\* A ? in the loop returns the error: the phase has no end and no last drain.
NetFail ==
    /\ net.status = "loop"
    /\ net' = [net EXCEPT !.status = "failed"]
    /\ NetFrame

\* The new phase follows the diff phase with the same counter.
NetNextPhase ==
    /\ net.status = "end"
    /\ net.phase = 1
    /\ \E chunks \in ChunkSeqs :
          net' = [net EXCEPT !.status = "loop", !.phase = 2, !.chunks = chunks,
                             !.value0 = net.value, !.delivered = 0, !.drains = 0]
    /\ NetFrame

NetNext ==
    \/ NetFetchAdd
    \/ NetDrain
    \/ NetFinalDrain
    \/ NetFail
    \/ NetNextPhase

NetSpec == NetInit /\ [][NetNext]_vars

\* C25: however the stream's fetch_add steps interleave with the drains, no
\* byte is lost or counted twice: during a phase the counted bytes and the
\* undrained ones add up to the delivered ones, and at the end of a phase
\* progress.net.value has grown by exactly the bytes the stream delivered in
\* the phase and the counter is 0.
NetBytesConserved ==
    /\ net.status \in {"loop", "failed"} =>
          net.value + net.counter = net.value0 + net.delivered
    /\ net.status = "end" =>
          /\ net.value - net.value0 = net.delivered
          /\ net.counter = 0

\* The second phase has ended after drains in the loop and a last drain that
\* moved bytes.
SecondPhaseDrainedInPieces ==
    /\ net.status = "end"
    /\ net.phase = 2
    /\ net.drains = 2
    /\ net.delivered = 5
    /\ net.value0 > 3

\* C26: a run that goes past the early return installs into a directory that
\* is not the directory of a version installed before, in particular not
\* old_install_dir, so the source a delta is applied to and the file it is
\* written to are never the same file. Stated for served content whose
\* manifest carries the catalog's version, and for runs that do not follow a
\* failed or interrupted one.
TargetDirIsFresh ==
    /\ (h.runs > 0 /\ h.target # <<>> /\ h.prev \in {"none", "Ok"}
          /\ server.manifest.version = h.selected) =>
          /\ h.target \notin h.disk0.dirs
          /\ h.start.kind = "json" => h.target # OldInstallDirOfRun
    /\ pc \in DiffEntrySteps =>
          Join(l.old_install_dir.dir, l.entry.path) # Join(l.new_install_dir, l.entry.path)

\* The part that the version comparison of the early return does secure.
TargetDirIsNotOldDir ==
    /\ (h.runs > 0 /\ h.target # <<>> /\ h.start.kind = "json") =>
          h.target # OldInstallDirOfRun
    /\ pc \in DiffEntrySteps =>
          Join(l.old_install_dir.dir, l.entry.path) # Join(l.new_install_dir, l.entry.path)

\* C27: whatever the manifest and the archives hold, every file an install
\* run creates or rewrites lies inside new_install_dir and every file it
\* deletes lies inside old_install_dir.
WritesAndDeletesConfined ==
    [][/\ \A q \in DOMAIN files' :
             (q \notin DOMAIN files \/ files'[q] # files[q]) =>
                 IsUnder(q, l.new_install_dir)
       /\ \A q \in DOMAIN files \ DOMAIN files' :
             l.old_install_dir.some /\ IsUnder(q, l.old_install_dir.dir)]_vars

\* The same for the paths of this model that have no ".." component.
PlainPathsConfined ==
    [][server # EscapeServer =>
          /\ \A q \in DOMAIN files' :
                (q \notin DOMAIN files \/ files'[q] # files[q]) =>
                    IsUnder(q, l.new_install_dir)
          /\ \A q \in DOMAIN files \ DOMAIN files' :
                l.old_install_dir.some /\ IsUnder(q, l.old_install_dir.dir)]_vars

====
